---- MODULE Spec2Model ----
(***************************************************************************)
(* Model of crates/storage/db-models: the wallet state sync record         *)
(* (wallet_sync.rs), the snapshot, snapshot chunk and snapshot sync models *)
(* (chunks.rs) and the runtime version (activation_manager.rs).  Every     *)
(* method is an operator computed the way the Rust code computes it; every *)
(* call of a method is one action.                                         *)
(***************************************************************************)
EXTENDS Integers, Sequences, FiniteSets, TLC

VARIABLES
    record,     \* the WalletStateSyncRecord under test
    tuples,     \* the `data` argument new() was called with (an Option)
    accepted,   \* history: the (block, payload) pairs stored so far, in order
    wcall,      \* the most recent call on record: its name and what it returned
    snapshot,   \* the Snapshot under test
    scall,      \* the most recent call on snapshot: its name, argument and return
    snapshot_chunk, \* the SnapshotChunk under test
    fed,        \* history: the lengths of the byte vectors handed to new and
                \* append_chunk_data, in order
    kcall,      \* the most recent call on snapshot_chunk: its name and return
    version_a,  \* a RuntimeVersion, the left operand of comparisons
    version_b,  \* a RuntimeVersion, the right operand of comparisons
    vcall,      \* the most recent comparison of version_a with version_b
    snapshot_sync, \* the SnapshotSync under test
    last_index, \* history: the argument of the latest set_last_applied_chunk_index
                \* call (an Option)
    ycall,      \* the most recent call on snapshot_sync
    peers,      \* two WalletStateSyncRecords, each filled from one peer
    collection, \* the (block, payload) pairs both peers deliver
    offered     \* per record, the pairs of the collection offered to it so far

vars == <<record, tuples, accepted, wcall, snapshot, scall, snapshot_chunk, fed, kcall,
          version_a, version_b, vcall, snapshot_sync, last_index, ycall,
          peers, collection, offered>>
walletVars == <<record, tuples, accepted, wcall>>
snapshotVars == <<snapshot, scall>>
chunkVars == <<snapshot_chunk, fed, kcall>>
versionVars == <<version_a, version_b, vcall>>
\* the objects modelled further down, for the frames of the actions above them
syncVars == <<snapshot_sync, last_index, ycall>>
peersVars == <<peers, collection, offered>>
restVars == <<versionVars, syncVars, peersVars>>

(***************************************************************************)
(* Bounds of the model.                                                    *)
(***************************************************************************)
\* longest list of initial pairs handed to WalletStateSyncRecord::new
MaxInit == 3
\* longest argument vector of append_data_block_chunks
MaxChunks == 2
\* longest chunk_ids / block_ids vector of a Snapshot
MaxIds == 3
\* most append_chunk_data calls on a SnapshotChunk
MaxAppends == 3
\* largest chunk index handed to set_last_applied_chunk_index
MaxIndex == 3
\* most pairs in the collection two peers deliver
MaxPairs == 3

(***************************************************************************)
(* Values.                                                                 *)
(***************************************************************************)
\* std::mem::size_of::<B256>() and std::mem::size_of::<u64>()
SizeOfB256 == 32
SizeOfU64 == 8

\* Option<T>: None, or Some(x)
None == <<>>
Some(x) == <<x>>

\* A B256 / B512 value is named by its last byte b (the other bytes are zero);
\* as_slice() gives its 32 / 64 bytes
B256_as_slice(b) == [i \in 1..32 |-> IF i = 32 THEN b ELSE 0]
B512_as_slice(b) == [i \in 1..64 |-> IF i = 64 THEN b ELSE 0]

PeerIDs == {1, 2}
UuidIDs == {3, 4}
ChunksCounts == {1, 2}
Payloads == {<<1, 2, 3>>, <<9, 9>>}
BlockNumbers == {5, 100, 200}
\* the block numbers the argument vectors of append_data_block_chunks draw from
BatchBlockNumbers == {5, 100}

\* all sequences over S of length at most n
SeqsUpTo(S, n) == UNION {[1..k -> S] : k \in 0..n}

Min(a, b) == IF a <= b THEN a ELSE b

\* u64::to_le_bytes: eight bytes, least significant first
RECURSIVE LeBytes(_, _)
LeBytes(x, n) == IF n = 0 THEN <<>> ELSE <<x % 256>> \o LeBytes(x \div 256, n - 1)
to_le_bytes(x) == LeBytes(x, SizeOfU64)

\* Sha256: update() calls concatenate the message; finalize() is treated as
\* collision-free, so a digest is identified by the message it was fed
Sha256(message) == <<"sha256", message>>

(***************************************************************************)
(* WalletStateSyncRecord (wallet_sync.rs)                                  *)
(***************************************************************************)
\* tuples.into_iter().unzip()
Unzip(ts) == [blocks |-> [i \in 1..Len(ts) |-> ts[i][1]],
              data_bytes |-> [i \in 1..Len(ts) |-> ts[i][2]]]

WalletStateSyncRecord_new(peer_id, uuid, chunks_count, data) ==
    IF data # None
    THEN LET u == Unzip(data[1])
         IN  [uuid |-> uuid, data |-> u.data_bytes, blocks |-> u.blocks,
              chunks_count |-> chunks_count, peer_id |-> peer_id]
    ELSE [uuid |-> uuid, data |-> <<>>, blocks |-> <<>>,
          chunks_count |-> chunks_count, peer_id |-> peer_id]

\* mutant: the duplicate test on a joint (block, payload) key
add_data_if_not_exists_joint(self, data_chunk, block_number) ==
    IF \E i \in 1..Min(Len(self.data), Len(self.blocks)) :
           self.data[i] = data_chunk /\ self.blocks[i] = block_number
    THEN [self |-> self, ret |-> FALSE]
    ELSE [self |-> [self EXCEPT !.data = Append(@, data_chunk),
                                !.blocks = Append(@, block_number)],
          ret |-> TRUE]

\* mutant: the payload is pushed before the block number is tested
add_data_if_not_exists_early_push(self, data_chunk, block_number) ==
    IF \E i \in 1..Len(self.data) : self.data[i] = data_chunk
    THEN [self |-> self, ret |-> FALSE]
    ELSE IF \E i \in 1..Len(self.blocks) : self.blocks[i] = block_number
         THEN [self |-> [self EXCEPT !.data = Append(@, data_chunk)], ret |-> FALSE]
         ELSE [self |-> [self EXCEPT !.data = Append(@, data_chunk),
                                     !.blocks = Append(@, block_number)],
               ret |-> TRUE]

\* mutant: only the payload is tested, the block number is not
add_data_if_not_exists_data_only(self, data_chunk, block_number) ==
    IF \E i \in 1..Len(self.data) : self.data[i] = data_chunk
    THEN [self |-> self, ret |-> FALSE]
    ELSE [self |-> [self EXCEPT !.data = Append(@, data_chunk),
                                !.blocks = Append(@, block_number)],
          ret |-> TRUE]

\* returns the record after the call and the returned bool
add_data_if_not_exists(self, data_chunk, block_number) ==
    IF \E i \in 1..Len(self.data) : self.data[i] = data_chunk
    THEN [self |-> self, ret |-> FALSE]
    ELSE IF \E i \in 1..Len(self.blocks) : self.blocks[i] = block_number
         THEN [self |-> self, ret |-> FALSE]
         ELSE [self |-> [self EXCEPT !.data = Append(@, data_chunk),
                                     !.blocks = Append(@, block_number)],
               ret |-> TRUE]

append_data_with_block(self, additional_data, block_number) ==
    add_data_if_not_exists(self, additional_data, block_number).self

\* the loop over blocks.iter().zip(additional_data_chunks), from position i on;
\* rets collects what each add_data_if_not_exists call returned
RECURSIVE AppendZipped(_, _, _, _, _)
AppendZipped(self, additional_data_chunks, blocks, i, rets) ==
    IF i > Min(Len(blocks), Len(additional_data_chunks))
    THEN [self |-> self, rets |-> rets]
    ELSE LET r == add_data_if_not_exists(self, additional_data_chunks[i], blocks[i])
         IN  AppendZipped(r.self, additional_data_chunks, blocks, i + 1,
                          Append(rets, r.ret))

append_data_block_chunks(self, additional_data_chunks, blocks) ==
    AppendZipped(self, additional_data_chunks, blocks, 1, <<>>)

\* self.data.iter().map(|data| data.len()).sum()
RECURSIVE SumLen(_)
SumLen(bufs) == IF bufs = <<>> THEN 0 ELSE Len(Head(bufs)) + SumLen(Tail(bufs))

\* mutant: the peer id counted with the 64 bytes of a B512
WalletStateSyncRecord_size_b512(self) ==
    SizeOfB256 + 2 * SizeOfB256 + SumLen(self.data) + Len(self.blocks) * SizeOfU64

WalletStateSyncRecord_size(self) ==
    LET uuid_size == SizeOfB256
        peer_id == SizeOfB256
        data_size == SumLen(self.data)
        blocks_size == Len(self.blocks) * SizeOfU64
    IN  uuid_size + peer_id + data_size + blocks_size

\* the fold of collect() over the zipped iterator, from position i on
RECURSIVE CollectZipped(_, _, _, _)
CollectZipped(blocks, data, i, set) ==
    IF i > Min(Len(blocks), Len(data))
    THEN set
    ELSE CollectZipped(blocks, data, i + 1, set \cup {<<blocks[i], data[i]>>})

\* mutant: the last block number is left out of the zip
blocks_and_data_to_set_short(self) ==
    CollectZipped(SubSeq(self.blocks, 1, Len(self.blocks) - 1), self.data, 1, {})

\* blocks.iter().zip(data.iter()).map(..).collect::<HashSet<_>>()
blocks_and_data_to_set(self) == CollectZipped(self.blocks, self.data, 1, {})

\* the bytes of every payload, one after the other
RECURSIVE Flatten(_)
Flatten(bufs) == IF bufs = <<>> THEN <<>> ELSE Head(bufs) \o Flatten(Tail(bufs))

RECURSIVE FlattenLe(_)
FlattenLe(ids) ==
    IF ids = <<>> THEN <<>> ELSE to_le_bytes(Head(ids)) \o FlattenLe(Tail(ids))

\* mutant: the block numbers are fed to the hasher too
WalletStateSyncRecord_get_hash_blocks(self) ==
    Sha256(B512_as_slice(self.peer_id) \o B256_as_slice(self.uuid)
           \o Flatten(self.data) \o FlattenLe(self.blocks))

WalletStateSyncRecord_get_hash(self) ==
    Sha256(B512_as_slice(self.peer_id) \o B256_as_slice(self.uuid)
           \o Flatten(self.data))

WalletStateSyncRecord_default ==
    [uuid |-> 0, data |-> <<>>, blocks |-> <<>>, chunks_count |-> 0, peer_id |-> 0]

\* the pairs of a zipped argument list that were accepted
RECURSIVE AcceptedOf(_, _, _, _)
AcceptedOf(additional_data_chunks, blocks, rets, i) ==
    IF i > Len(rets)
    THEN <<>>
    ELSE (IF rets[i] THEN <<<<blocks[i], additional_data_chunks[i]>>>> ELSE <<>>)
         \o AcceptedOf(additional_data_chunks, blocks, rets, i + 1)

\* the initial pairs: a repeated block, a repeated payload and a repeated pair
\* can all be formed from them
InitPairs == {<<5, <<1, 2, 3>>>>, <<100, <<9, 9>>>>, <<5, <<9, 9>>>>}
InitPairLists == SeqsUpTo(InitPairs, MaxInit)

WalletInit ==
    /\ tuples \in {None} \cup {Some(ts) : ts \in InitPairLists}
    /\ \E peer_id \in PeerIDs, uuid \in UuidIDs, chunks_count \in ChunksCounts :
           record = WalletStateSyncRecord_new(peer_id, uuid, chunks_count, tuples)
    /\ accepted = IF tuples = None THEN <<>> ELSE tuples[1]
    /\ wcall = [op |-> "new"]

WalletIdle ==
    /\ tuples = None
    /\ record = WalletStateSyncRecord_default
    /\ accepted = <<>>
    /\ wcall = [op |-> "default"]

AppendDataWithBlock(additional_data, block_number) ==
    LET r == add_data_if_not_exists(record, additional_data, block_number)
    IN  /\ record' = append_data_with_block(record, additional_data, block_number)
        /\ accepted' = IF r.ret THEN Append(accepted, <<block_number, additional_data>>)
                       ELSE accepted
        /\ wcall' = [op |-> "append_data_with_block"]
        /\ UNCHANGED <<tuples, snapshotVars, chunkVars, restVars>>

AppendDataBlockChunks(additional_data_chunks, blocks) ==
    LET r == append_data_block_chunks(record, additional_data_chunks, blocks)
    IN  /\ record' = r.self
        /\ accepted' = accepted \o AcceptedOf(additional_data_chunks, blocks, r.rets, 1)
        /\ wcall' = [op |-> "append_data_block_chunks",
                     uneven |-> Len(additional_data_chunks) # Len(blocks),
                     added |-> Len(r.self.data) - Len(record.data)]
        /\ UNCHANGED <<tuples, snapshotVars, chunkVars, restVars>>

AddDataIfNotExists(data_chunk, block_number) ==
    LET r == add_data_if_not_exists(record, data_chunk, block_number)
    IN  /\ record' = r.self
        /\ accepted' = IF r.ret THEN Append(accepted, <<block_number, data_chunk>>)
                       ELSE accepted
        /\ wcall' = [op |-> "add_data_if_not_exists", ret |-> r.ret]
        /\ UNCHANGED <<tuples, snapshotVars, chunkVars, restVars>>

SetPeerId(peer_id) ==
    /\ record' = [record EXCEPT !.peer_id = peer_id]
    /\ wcall' = [op |-> "set_peer_id"]
    /\ UNCHANGED <<tuples, accepted, snapshotVars, chunkVars, restVars>>

SetChunksCount(chunks_count) ==
    /\ record' = [record EXCEPT !.chunks_count = chunks_count]
    /\ wcall' = [op |-> "set_chunks_count"]
    /\ UNCHANGED <<tuples, accepted, snapshotVars, chunkVars, restVars>>

SetUuid(uuid) ==
    /\ record' = [record EXCEPT !.uuid = uuid]
    /\ wcall' = [op |-> "set_uuid"]
    /\ UNCHANGED <<tuples, accepted, snapshotVars, chunkVars, restVars>>

WalletSize ==
    /\ wcall' = [op |-> "size", ret |-> WalletStateSyncRecord_size(record)]
    /\ UNCHANGED <<record, tuples, accepted, snapshotVars, chunkVars, restVars>>

BlocksAndDataToSet ==
    /\ wcall' = [op |-> "blocks_and_data_to_set", ret |-> blocks_and_data_to_set(record)]
    /\ UNCHANGED <<record, tuples, accepted, snapshotVars, chunkVars, restVars>>

WalletGetHash ==
    /\ wcall' = [op |-> "get_hash", ret |-> WalletStateSyncRecord_get_hash(record)]
    /\ UNCHANGED <<record, tuples, accepted, snapshotVars, chunkVars, restVars>>

(***************************************************************************)
(* Snapshot (chunks.rs)                                                    *)
(***************************************************************************)
SnapshotIds == {100, 101}
Heights == {12000, 12001}
BlockHashes == {0, 1}
ChunkIds == {1, 2}
BlockIds == {2, 1001}

\* iter().copied().collect::<BTreeSet<u64>>()
ToSet(ids) == {ids[i] : i \in 1..Len(ids)}

Snapshot_new(id, height, block_hash) ==
    [id |-> id, height |-> height, chunk_ids |-> <<>>, block_ids |-> <<>>,
     block_hash |-> block_hash]

Snapshot_default ==
    [id |-> 0, height |-> 0, chunk_ids |-> <<>>, block_ids |-> <<>>,
     block_hash |-> 0]

Snapshot_set_id(self, id) == [self EXCEPT !.id = id]
Snapshot_set_height(self, height) == [self EXCEPT !.height = height]
add_chunk_id(self, chunk) == [self EXCEPT !.chunk_ids = Append(@, chunk)]
set_chunks(self, chunks) == [self EXCEPT !.chunk_ids = chunks]
add_block_id(self, block_id) == [self EXCEPT !.block_ids = Append(@, block_id)]
set_block_ids(self, block_ids) == [self EXCEPT !.block_ids = block_ids]
set_block_hash(self, block_hash) == [self EXCEPT !.block_hash = block_hash]

\* mutant: only the latest block id is compared
add_block_id_if_not_exists_latest(self, block_id) ==
    IF self.block_ids = <<>> \/ self.block_ids[Len(self.block_ids)] # block_id
    THEN [self |-> [self EXCEPT !.block_ids = Append(@, block_id)], ret |-> TRUE]
    ELSE [self |-> self, ret |-> FALSE]

add_block_id_if_not_exists(self, block_id) ==
    LET block_ids_set == ToSet(self.block_ids)
    IN  IF block_id \notin block_ids_set
        THEN [self |-> [self EXCEPT !.block_ids = Append(@, block_id)], ret |-> TRUE]
        ELSE [self |-> self, ret |-> FALSE]

\* mutant: the chunk id is pushed whether or not the set already held it
add_chunk_id_if_not_exists_always(self, chunk_id) ==
    [self |-> [self EXCEPT !.chunk_ids = Append(@, chunk_id)],
     ret |-> chunk_id \notin ToSet(self.chunk_ids)]

add_chunk_id_if_not_exists(self, chunk_id) ==
    LET chunk_ids_set == ToSet(self.chunk_ids)
    IN  IF chunk_id \notin chunk_ids_set
        THEN [self |-> [self EXCEPT !.chunk_ids = Append(@, chunk_id)], ret |-> TRUE]
        ELSE [self |-> self, ret |-> FALSE]

\* mutant: the block hash is not fed to the hasher
Snapshot_get_hash_no_block_hash(self) ==
    Sha256(to_le_bytes(self.id) \o to_le_bytes(self.height)
           \o FlattenLe(self.chunk_ids) \o FlattenLe(self.block_ids))

\* a digest that feeds the number of chunk ids before the chunk ids
Snapshot_get_hash_len_prefixed(self) ==
    Sha256(to_le_bytes(self.id) \o to_le_bytes(self.height)
           \o to_le_bytes(Len(self.chunk_ids))
           \o FlattenLe(self.chunk_ids) \o FlattenLe(self.block_ids)
           \o B256_as_slice(self.block_hash))

Snapshot_get_hash(self) ==
    Sha256(to_le_bytes(self.id) \o to_le_bytes(self.height)
           \o FlattenLe(self.chunk_ids) \o FlattenLe(self.block_ids)
           \o B256_as_slice(self.block_hash))

SnapshotInit ==
    /\ \E id \in SnapshotIds, height \in Heights, block_hash \in BlockHashes :
           snapshot = Snapshot_new(id, height, block_hash)
    /\ scall = [op |-> "new"]

SnapshotIdle ==
    /\ snapshot = Snapshot_default
    /\ scall = [op |-> "default"]

SetId(id) ==
    /\ snapshot' = Snapshot_set_id(snapshot, id)
    /\ scall' = [op |-> "set_id"]
    /\ UNCHANGED <<walletVars, chunkVars, restVars>>

SetHeight(height) ==
    /\ snapshot' = Snapshot_set_height(snapshot, height)
    /\ scall' = [op |-> "set_height"]
    /\ UNCHANGED <<walletVars, chunkVars, restVars>>

SetBlockHash(block_hash) ==
    /\ snapshot' = set_block_hash(snapshot, block_hash)
    /\ scall' = [op |-> "set_block_hash"]
    /\ UNCHANGED <<walletVars, chunkVars, restVars>>

AddChunkId(chunk) ==
    /\ Len(snapshot.chunk_ids) < MaxIds
    /\ snapshot' = add_chunk_id(snapshot, chunk)
    /\ scall' = [op |-> "add_chunk_id"]
    /\ UNCHANGED <<walletVars, chunkVars, restVars>>

SetChunks(chunks) ==
    /\ snapshot' = set_chunks(snapshot, chunks)
    /\ scall' = [op |-> "set_chunks"]
    /\ UNCHANGED <<walletVars, chunkVars, restVars>>

AddBlockId(block_id) ==
    /\ Len(snapshot.block_ids) < MaxIds
    /\ snapshot' = add_block_id(snapshot, block_id)
    /\ scall' = [op |-> "add_block_id"]
    /\ UNCHANGED <<walletVars, chunkVars, restVars>>

SetBlockIds(block_ids) ==
    /\ snapshot' = set_block_ids(snapshot, block_ids)
    /\ scall' = [op |-> "set_block_ids"]
    /\ UNCHANGED <<walletVars, chunkVars, restVars>>

AddBlockIdIfNotExists(block_id) ==
    LET r == add_block_id_if_not_exists(snapshot, block_id)
    IN  /\ Len(snapshot.block_ids) < MaxIds \/ block_id \in ToSet(snapshot.block_ids)
        /\ snapshot' = r.self
        /\ scall' = [op |-> "add_block_id_if_not_exists", arg |-> block_id, ret |-> r.ret]
        /\ UNCHANGED <<walletVars, chunkVars, restVars>>

AddChunkIdIfNotExists(chunk_id) ==
    LET r == add_chunk_id_if_not_exists(snapshot, chunk_id)
    IN  /\ Len(snapshot.chunk_ids) < MaxIds \/ chunk_id \in ToSet(snapshot.chunk_ids)
        /\ snapshot' = r.self
        /\ scall' = [op |-> "add_chunk_id_if_not_exists", arg |-> chunk_id, ret |-> r.ret]
        /\ UNCHANGED <<walletVars, chunkVars, restVars>>

SnapshotGetHash ==
    /\ scall' = [op |-> "get_hash", ret |-> Snapshot_get_hash(snapshot)]
    /\ UNCHANGED <<snapshot, walletVars, chunkVars, restVars>>

(***************************************************************************)
(* SnapshotChunk (chunks.rs)                                               *)
(***************************************************************************)
ByteVecs == {<<>>, <<7>>, <<1, 2, 3>>}
ChunkSnapshotIds == {1, 2}
ChunkBlockNumbers == {1001, 1002}

SnapshotChunk_new(snapshot_id, starting_block_number, chunk_data) ==
    [snapshot_id |-> snapshot_id, chunk_data |-> <<chunk_data>>,
     starting_block_number |-> starting_block_number,
     ending_block_number |-> starting_block_number]

SnapshotChunk_default ==
    [snapshot_id |-> 0, chunk_data |-> <<>>, starting_block_number |-> 0,
     ending_block_number |-> 0]

\* mutant: the new bytes replace the stored ones
append_chunk_data_replace(self, additional_data, ending_block_number) ==
    [self EXCEPT !.chunk_data = <<additional_data>>,
                 !.ending_block_number = ending_block_number]

append_chunk_data(self, additional_data, ending_block_number) ==
    [self EXCEPT !.chunk_data = Append(@, additional_data),
                 !.ending_block_number = ending_block_number]

SnapshotChunk_size(self) ==
    LET chunk_id_size == SizeOfU64
        data_size == SumLen(self.chunk_data)
    IN  chunk_id_size + data_size

ChunkInit ==
    /\ \E snapshot_id \in ChunkSnapshotIds, starting_block_number \in ChunkBlockNumbers,
          chunk_data \in ByteVecs :
           /\ snapshot_chunk = SnapshotChunk_new(snapshot_id, starting_block_number, chunk_data)
           /\ fed = <<Len(chunk_data)>>
    /\ kcall = [op |-> "new"]

ChunkIdle ==
    /\ snapshot_chunk = SnapshotChunk_default
    /\ fed = <<>>
    /\ kcall = [op |-> "default"]

AppendChunkData(additional_data, ending_block_number) ==
    /\ Len(fed) <= MaxAppends
    /\ snapshot_chunk' = append_chunk_data(snapshot_chunk, additional_data, ending_block_number)
    /\ fed' = Append(fed, Len(additional_data))
    /\ kcall' = [op |-> "append_chunk_data"]
    /\ UNCHANGED <<walletVars, snapshotVars, restVars>>

ChunkSize ==
    /\ kcall' = [op |-> "size", ret |-> SnapshotChunk_size(snapshot_chunk)]
    /\ UNCHANGED <<snapshot_chunk, fed, walletVars, snapshotVars, restVars>>

(***************************************************************************)
(* RuntimeVersion (activation_manager.rs)                                  *)
(***************************************************************************)
MajorVersions == {0, 1, 2}
MinorVersions == {0, 1, 10}

\* RuntimeVersion(MajorVersion(major), MinorVersion(minor)): fields .0 and .1
RuntimeVersion_new(major, minor) == <<major, minor>>

\* From<(u16, u16)>
RuntimeVersion_from(pair) == RuntimeVersion_new(pair[1], pair[2])

\* #[derive(PartialOrd, Ord)] on MajorVersion(u16) and MinorVersion(u16)
u16_cmp(x, y) == IF x < y THEN "Less" ELSE IF x = y THEN "Equal" ELSE "Greater"

\* mutant: the minor version is compared first, the major one breaks ties
RuntimeVersion_cmp_minor_first(self, other) ==
    LET ordering == u16_cmp(self[2], other[2])
    IN  IF ordering = "Equal" THEN u16_cmp(self[1], other[1]) ELSE ordering

\* impl Ord for RuntimeVersion
RuntimeVersion_cmp(self, other) ==
    LET ordering == u16_cmp(self[1], other[1])
    IN  IF ordering = "Equal" THEN u16_cmp(self[2], other[2]) ELSE ordering

\* impl PartialOrd for RuntimeVersion
RuntimeVersion_partial_cmp(self, other) == Some(RuntimeVersion_cmp(self, other))

\* the operators <, > of PartialOrd and == of #[derive(PartialEq)]
RuntimeVersion_lt(self, other) == RuntimeVersion_partial_cmp(self, other) = Some("Less")
RuntimeVersion_gt(self, other) == RuntimeVersion_partial_cmp(self, other) = Some("Greater")
RuntimeVersion_eq(self, other) == self[1] = other[1] /\ self[2] = other[2]

VersionInit ==
    /\ \E major \in MajorVersions, minor \in MinorVersions :
           version_a = RuntimeVersion_new(major, minor)
    /\ \E pair \in MajorVersions \X MinorVersions :
           version_b = RuntimeVersion_from(pair)
    /\ vcall = [op |-> "new"]

VersionIdle ==
    /\ version_a = RuntimeVersion_new(0, 0)
    /\ version_b = RuntimeVersion_new(0, 0)
    /\ vcall = [op |-> "default"]

VersionNew(major, minor) ==
    /\ version_a' = RuntimeVersion_new(major, minor)
    /\ vcall' = [op |-> "new"]
    /\ UNCHANGED <<version_b, walletVars, snapshotVars, chunkVars, syncVars, peersVars>>

VersionFrom(pair) ==
    /\ version_b' = RuntimeVersion_from(pair)
    /\ vcall' = [op |-> "from"]
    /\ UNCHANGED <<version_a, walletVars, snapshotVars, chunkVars, syncVars, peersVars>>

VersionCmp ==
    /\ vcall' = [op |-> "cmp", ret |-> RuntimeVersion_cmp(version_a, version_b)]
    /\ UNCHANGED <<version_a, version_b, walletVars, snapshotVars, chunkVars, syncVars, peersVars>>

VersionLt ==
    /\ vcall' = [op |-> "lt", ret |-> RuntimeVersion_lt(version_a, version_b)]
    /\ UNCHANGED <<version_a, version_b, walletVars, snapshotVars, chunkVars, syncVars, peersVars>>

VersionGt ==
    /\ vcall' = [op |-> "gt", ret |-> RuntimeVersion_gt(version_a, version_b)]
    /\ UNCHANGED <<version_a, version_b, walletVars, snapshotVars, chunkVars, syncVars, peersVars>>

VersionEq ==
    /\ vcall' = [op |-> "eq", ret |-> RuntimeVersion_eq(version_a, version_b)]
    /\ UNCHANGED <<version_a, version_b, walletVars, snapshotVars, chunkVars, syncVars, peersVars>>

(***************************************************************************)
(* SnapshotSync (chunks.rs)                                                *)
(***************************************************************************)
SyncHeights == {12000, 12001}
SnapshotHashes == {0, 1}
Formats == {1, 2}
TotalChunks == {1, 2}
ChunkIndexes == 0..MaxIndex

SnapshotSync_new(height, snapshot_hash, format, total_chunks) ==
    [height |-> height, total_chunks |-> total_chunks, last_applied_chunk_index |-> 0,
     snapshot_hash |-> snapshot_hash, format |-> format]

SnapshotSync_default ==
    [height |-> 0, total_chunks |-> 0, last_applied_chunk_index |-> 0,
     snapshot_hash |-> 0, format |-> 0]

SnapshotSync_set_height(self, height) == [self EXCEPT !.height = height]

set_total_chunks(self, total_chunks) == [self EXCEPT !.total_chunks = total_chunks]

\* mutant: the index is kept within total_chunks
set_last_applied_chunk_index_clamped(self, last_applied_chunk_index) ==
    [self EXCEPT !.last_applied_chunk_index = Min(last_applied_chunk_index,
                                                  self.total_chunks)]

\* mutant: the index never goes back
set_last_applied_chunk_index_forward(self, last_applied_chunk_index) ==
    IF last_applied_chunk_index >= self.last_applied_chunk_index
    THEN [self EXCEPT !.last_applied_chunk_index = last_applied_chunk_index]
    ELSE self

set_last_applied_chunk_index(self, last_applied_chunk_index) ==
    [self EXCEPT !.last_applied_chunk_index = last_applied_chunk_index]

SyncInit ==
    /\ \E height \in SyncHeights, snapshot_hash \in SnapshotHashes, format \in Formats,
          total_chunks \in TotalChunks :
           snapshot_sync = SnapshotSync_new(height, snapshot_hash, format, total_chunks)
    /\ last_index = None
    /\ ycall = [op |-> "new"]

SyncIdle ==
    /\ snapshot_sync = SnapshotSync_default
    /\ last_index = None
    /\ ycall = [op |-> "default"]

SyncSetHeight(height) ==
    /\ snapshot_sync' = SnapshotSync_set_height(snapshot_sync, height)
    /\ ycall' = [op |-> "set_height"]
    /\ UNCHANGED <<last_index, walletVars, snapshotVars, chunkVars, versionVars, peersVars>>

SetTotalChunks(total_chunks) ==
    /\ snapshot_sync' = set_total_chunks(snapshot_sync, total_chunks)
    /\ ycall' = [op |-> "set_total_chunks"]
    /\ UNCHANGED <<last_index, walletVars, snapshotVars, chunkVars, versionVars, peersVars>>

SetLastAppliedChunkIndex(last_applied_chunk_index) ==
    /\ snapshot_sync' = set_last_applied_chunk_index(snapshot_sync, last_applied_chunk_index)
    /\ last_index' = Some(last_applied_chunk_index)
    /\ ycall' = [op |-> "set_last_applied_chunk_index",
                 arg |-> last_applied_chunk_index,
                 before |-> snapshot_sync.last_applied_chunk_index]
    /\ UNCHANGED <<walletVars, snapshotVars, chunkVars, versionVars, peersVars>>

(***************************************************************************)
(* Two WalletStateSyncRecords filled with the same pairs (wallet_sync.rs)  *)
(***************************************************************************)
PeerPayloads == Payloads \cup {<<7>>}
PeerPairs == BlockNumbers \X PeerPayloads
Collections == {c \in SUBSET PeerPairs : Cardinality(c) <= MaxPairs}

PeersInit ==
    /\ collection \in Collections
    /\ peers = [i \in 1..2 |-> WalletStateSyncRecord_new(i, 3, 1, None)]
    /\ offered = [i \in 1..2 |-> {}]

PeersIdle ==
    /\ collection = {}
    /\ peers = [i \in 1..2 |-> WalletStateSyncRecord_default]
    /\ offered = [i \in 1..2 |-> {}]

\* record i is offered a pair of the collection it has not been offered yet
OfferAdd(i, pair) ==
    /\ pair \in collection \ offered[i]
    /\ peers' = [peers EXCEPT ![i] = add_data_if_not_exists(@, pair[2], pair[1]).self]
    /\ offered' = [offered EXCEPT ![i] = @ \cup {pair}]
    /\ UNCHANGED <<collection, walletVars, snapshotVars, chunkVars, versionVars, syncVars>>

OfferAppend(i, pair) ==
    /\ pair \in collection \ offered[i]
    /\ peers' = [peers EXCEPT ![i] = append_data_with_block(@, pair[2], pair[1])]
    /\ offered' = [offered EXCEPT ![i] = @ \cup {pair}]
    /\ UNCHANGED <<collection, walletVars, snapshotVars, chunkVars, versionVars, syncVars>>

(***************************************************************************)
(* Specifications: one object under test at a time, the others idle.       *)
(***************************************************************************)
WalletNext ==
    \/ \E p \in Payloads, b \in BlockNumbers : AppendDataWithBlock(p, b)
    \/ \E ps \in SeqsUpTo(Payloads, MaxChunks), bs \in SeqsUpTo(BatchBlockNumbers, MaxChunks) :
           AppendDataBlockChunks(ps, bs)
    \/ \E p \in Payloads, b \in BlockNumbers : AddDataIfNotExists(p, b)
    \/ \E peer_id \in PeerIDs : SetPeerId(peer_id)
    \/ \E chunks_count \in ChunksCounts : SetChunksCount(chunks_count)
    \/ \E uuid \in UuidIDs : SetUuid(uuid)
    \/ WalletSize
    \/ BlocksAndDataToSet
    \/ WalletGetHash

\* every object that is not under test
RestIdle == VersionIdle /\ SyncIdle /\ PeersIdle

InitWallet == WalletInit /\ SnapshotIdle /\ ChunkIdle /\ RestIdle

SpecWallet == InitWallet /\ [][WalletNext]_vars

SnapshotDedupNext ==
    \/ \E c \in ChunkIds : AddChunkIdIfNotExists(c)
    \/ \E b \in BlockIds : AddBlockIdIfNotExists(b)
    \/ \E id \in SnapshotIds : SetId(id)
    \/ \E height \in Heights : SetHeight(height)
    \/ \E block_hash \in BlockHashes : SetBlockHash(block_hash)

SnapshotNext ==
    \/ SnapshotDedupNext
    \/ \E c \in ChunkIds : AddChunkId(c)
    \/ \E cs \in SeqsUpTo(ChunkIds, MaxIds) : SetChunks(cs)
    \/ \E b \in BlockIds : AddBlockId(b)
    \/ \E bs \in SeqsUpTo(BlockIds, MaxIds) : SetBlockIds(bs)
    \/ SnapshotGetHash

InitSnapshot == SnapshotInit /\ WalletIdle /\ ChunkIdle /\ RestIdle

SpecSnapshot == InitSnapshot /\ [][SnapshotNext]_vars

SpecSnapshotDedup == InitSnapshot /\ [][SnapshotDedupNext]_vars

ChunkNext ==
    \/ \E bytes \in ByteVecs, e \in ChunkBlockNumbers : AppendChunkData(bytes, e)
    \/ ChunkSize

InitChunk == ChunkInit /\ WalletIdle /\ SnapshotIdle /\ RestIdle

SpecChunk == InitChunk /\ [][ChunkNext]_vars

VersionNext ==
    \/ \E major \in MajorVersions, minor \in MinorVersions : VersionNew(major, minor)
    \/ \E pair \in MajorVersions \X MinorVersions : VersionFrom(pair)
    \/ VersionCmp
    \/ VersionLt
    \/ VersionGt
    \/ VersionEq

InitVersion ==
    VersionInit /\ WalletIdle /\ SnapshotIdle /\ ChunkIdle /\ SyncIdle /\ PeersIdle

SpecVersion == InitVersion /\ [][VersionNext]_vars

SyncNext ==
    \/ \E height \in SyncHeights : SyncSetHeight(height)
    \/ \E total_chunks \in TotalChunks : SetTotalChunks(total_chunks)
    \/ \E i \in ChunkIndexes : SetLastAppliedChunkIndex(i)

InitSync ==
    SyncInit /\ WalletIdle /\ SnapshotIdle /\ ChunkIdle /\ VersionIdle /\ PeersIdle

SpecSync == InitSync /\ [][SyncNext]_vars

PeersNext ==
    \/ \E i \in 1..2, pair \in PeerPairs : OfferAdd(i, pair)
    \/ \E i \in 1..2, pair \in PeerPairs : OfferAppend(i, pair)

InitPeers ==
    PeersInit /\ WalletIdle /\ SnapshotIdle /\ ChunkIdle /\ VersionIdle /\ SyncIdle

SpecPeers == InitPeers /\ [][PeersNext]_vars

(***************************************************************************)
(* Properties.                                                             *)
(***************************************************************************)
NoDup(seq) == \A i, j \in 1..Len(seq) : i # j => seq[i] # seq[j]

Occurs(seq, x) == \E i \in 1..Len(seq) : seq[i] = x

RECURSIVE SumSeq(_)
SumSeq(ns) == IF ns = <<>> THEN 0 ELSE Head(ns) + SumSeq(Tail(ns))

\* the record holds no pair beyond those new() was given
Unseeded == tuples = None

\* the initial pairs of new() repeat no block number and no payload
SeedDistinct ==
    tuples = None \/ (NoDup(Unzip(tuples[1]).blocks) /\ NoDup(Unzip(tuples[1]).data_bytes))

\* C1: add_data_if_not_exists(payload, block) returns false and leaves the record
\* unchanged when payload is an element of data or block is an element of blocks
\* (each test on its own); otherwise it appends payload to data and block to
\* blocks and returns true.  On an empty record add([1,2,3],100) returns true and
\* a following add([1,2,3],200) returns false.
C1_AddIfAbsent ==
    [][\A p \in Payloads, b \in BlockNumbers :
           (wcall'.op = "add_data_if_not_exists" /\ AddDataIfNotExists(p, b)) =>
               /\ IF Occurs(record.data, p) \/ Occurs(record.blocks, b)
                  THEN wcall'.ret = FALSE /\ record' = record
                  ELSE /\ wcall'.ret = TRUE
                       /\ record' = [record EXCEPT !.data = Append(@, p),
                                                   !.blocks = Append(@, b)]
               /\ (record.data = <<>> /\ record.blocks = <<>>
                   /\ p = <<1, 2, 3>> /\ b = 100) => wcall'.ret = TRUE
               /\ (record.data = <<<<1, 2, 3>>>> /\ record.blocks = <<100>>
                   /\ p = <<1, 2, 3>> /\ b = 200) => wcall'.ret = FALSE
      ]_vars

\* C1 witness: on a record built from nothing that holds exactly ([1,2,3], 100),
\* a further add_data_if_not_exists was rejected
C1_Witness ==
    /\ Unseeded
    /\ record.data = <<<<1, 2, 3>>>> /\ record.blocks = <<100>>
    /\ wcall.op = "add_data_if_not_exists" /\ wcall.ret = FALSE

\* C2 (as claimed): in every reachable state, whatever initial pairs new() was
\* given, no block number occurs twice in blocks and no payload twice in data
C2_Original == NoDup(record.blocks) /\ NoDup(record.data)

\* C2 (amended): when new() was given no data, or initial pairs that repeat no
\* block number and no payload, no block number occurs twice in blocks and no
\* payload occurs twice in data in any reachable state
C2_UniqueWhenSeedDistinct == SeedDistinct => C2_Original

\* C2 witness: a record seeded with pairs, grown by an accepted pair, has just
\* rejected a duplicate
C2_Witness ==
    /\ tuples # None /\ SeedDistinct
    /\ Len(tuples[1]) >= 1 /\ Len(record.data) > Len(tuples[1])
    /\ wcall.op = "add_data_if_not_exists" /\ wcall.ret = FALSE

\* C3: data and blocks always have the same length, and the pair at position i
\* is the i-th pair that was accepted (the initial pairs first)
C3_ParallelSequences ==
    /\ Len(record.data) = Len(record.blocks)
    /\ Len(accepted) = Len(record.blocks)
    /\ \A i \in 1..Len(accepted) : accepted[i] = <<record.blocks[i], record.data[i]>>

\* C3 witness: append_data_block_chunks, called with vectors of different
\* lengths on a seeded record, stored a pair
C3_Witness ==
    /\ tuples # None /\ Len(tuples[1]) >= 1
    /\ wcall.op = "append_data_block_chunks" /\ wcall.uneven /\ wcall.added >= 1

\* C7: the wallet record's digest is taken over peer_id, uuid and the payloads
\* in order, and nothing else: a record with the same peer_id, uuid and data but
\* other block numbers or another chunks_count has the same digest
C7_HashIgnoresBlocks ==
    /\ wcall.op = "get_hash" =>
           wcall.ret = Sha256(B512_as_slice(record.peer_id) \o B256_as_slice(record.uuid)
                              \o Flatten(record.data))
    /\ \A bs \in [1..Len(record.blocks) -> BlockNumbers], cc \in ChunksCounts :
           WalletStateSyncRecord_get_hash([record EXCEPT !.blocks = bs,
                                                         !.chunks_count = cc])
               = WalletStateSyncRecord_get_hash(record)

\* C7 witness: get_hash was called on a record holding two payloads
C7_Witness == wcall.op = "get_hash" /\ Len(record.data) >= 2 /\ Len(record.blocks) >= 2

\* the record with its stored pairs rearranged by the permutation f
Permuted(self, f) ==
    [self EXCEPT !.blocks = [i \in 1..Len(self.blocks) |-> self.blocks[f[i]]],
                 !.data = [i \in 1..Len(self.data) |-> self.data[f[i]]]]

\* C8: blocks_and_data_to_set returns exactly the set of the pairs
\* (blocks[i], data[i]) and leaves the record as it was; a pair stored at several
\* positions counts once (a record holding (x,a),(y,b),(x,a) gives two pairs);
\* records whose pair sequences are permutations of each other give equal sets
C8_PairSet ==
    /\ [](/\ wcall.op = "blocks_and_data_to_set" =>
                 wcall.ret = {<<record.blocks[i], record.data[i]>> :
                                  i \in 1..Len(record.blocks)}
          /\ (/\ Len(record.blocks) = 3
              /\ record.blocks[1] = record.blocks[3] /\ record.data[1] = record.data[3]
              /\ record.blocks[1] # record.blocks[2] /\ record.data[1] # record.data[2])
             => Cardinality(blocks_and_data_to_set(record)) = 2
          /\ \A f \in Permutations(1..Len(record.blocks)) :
                 blocks_and_data_to_set(Permuted(record, f))
                     = blocks_and_data_to_set(record))
    /\ [][wcall'.op = "blocks_and_data_to_set" => record' = record]_vars

\* C8 witness: blocks_and_data_to_set, called on a record holding
\* (5,[1,2,3]), (100,[9,9]), (5,[1,2,3]), returned two pairs
C8_Witness ==
    /\ record.blocks = <<5, 100, 5>>
    /\ record.data = <<<<1, 2, 3>>, <<9, 9>>, <<1, 2, 3>>>>
    /\ wcall.op = "blocks_and_data_to_set" /\ Cardinality(wcall.ret) = 2

\* C10: size() is 32 + 32 + the lengths of all stored payloads + 8 for each stored
\* block number; new(P, U, 1, None) then append_data_with_block([9,9], 5) gives
\* 74; an append rejected as a duplicate leaves size() as it was
C10_WalletSize ==
    /\ [](/\ WalletStateSyncRecord_size(record)
               = 32 + 32 + SumSeq([i \in 1..Len(record.data) |-> Len(record.data[i])])
                 + 8 * Len(record.blocks)
          /\ wcall.op = "size" => wcall.ret = WalletStateSyncRecord_size(record)
          /\ (Unseeded /\ accepted = <<<<5, <<9, 9>>>>>>)
             => WalletStateSyncRecord_size(record) = 74)
    /\ [][(/\ wcall'.op \in {"append_data_with_block", "add_data_if_not_exists"}
           /\ accepted' = accepted)
          => WalletStateSyncRecord_size(record') = WalletStateSyncRecord_size(record)]_vars

\* C10 witness: size() returned 74 on the record made by new(P, U, 1, None) and
\* append_data_with_block([9,9], 5)
C10_Witness ==
    /\ Unseeded /\ accepted = <<<<5, <<9, 9>>>>>> /\ record.chunks_count = 1
    /\ wcall.op = "size" /\ wcall.ret = 74

\* the number of positions of seq that hold x
Count(seq, x) == Cardinality({i \in 1..Len(seq) : seq[i] = x})

\* C4: for a chunk id c that chunk_ids does not hold, add_chunk_id_if_not_exists(c)
\* returns true and makes c the new last element, one element more and nothing
\* else changed; the same call made again right after returns false and leaves
\* the whole snapshot as it was.  Likewise add_block_id_if_not_exists on block_ids.
C4_InsertTwice ==
    [][/\ (scall'.op = "add_chunk_id_if_not_exists"
           /\ ~Occurs(snapshot.chunk_ids, scall'.arg))
          => /\ scall'.ret = TRUE
             /\ snapshot' = [snapshot EXCEPT !.chunk_ids = Append(@, scall'.arg)]
             /\ Len(snapshot'.chunk_ids) = Len(snapshot.chunk_ids) + 1
       /\ (/\ scall.op = "add_chunk_id_if_not_exists" /\ scall.ret = TRUE
           /\ scall'.op = "add_chunk_id_if_not_exists" /\ scall'.arg = scall.arg)
          => scall'.ret = FALSE /\ snapshot' = snapshot
       /\ (scall'.op = "add_block_id_if_not_exists"
           /\ ~Occurs(snapshot.block_ids, scall'.arg))
          => /\ scall'.ret = TRUE
             /\ snapshot' = [snapshot EXCEPT !.block_ids = Append(@, scall'.arg)]
             /\ Len(snapshot'.block_ids) = Len(snapshot.block_ids) + 1
       /\ (/\ scall.op = "add_block_id_if_not_exists" /\ scall.ret = TRUE
           /\ scall'.op = "add_block_id_if_not_exists" /\ scall'.arg = scall.arg)
          => scall'.ret = FALSE /\ snapshot' = snapshot
      ]_vars

\* C4 witness: add_chunk_id_if_not_exists was rejected for the chunk id that is
\* the last element of chunk_ids and occurs there once, next to another chunk id
C4_Witness ==
    /\ scall.op = "add_chunk_id_if_not_exists" /\ scall.ret = FALSE
    /\ Len(snapshot.chunk_ids) >= 2
    /\ snapshot.chunk_ids[Len(snapshot.chunk_ids)] = scall.arg
    /\ Count(snapshot.chunk_ids, scall.arg) = 1

\* C5: from Snapshot::new, by add_chunk_id_if_not_exists,
\* add_block_id_if_not_exists, set_id, set_height and set_block_hash alone,
\* chunk_ids holds no value twice and block_ids holds no value twice
C5_UniqueIds == NoDup(snapshot.chunk_ids) /\ NoDup(snapshot.block_ids)

\* C5 witness: with two chunk ids and two block ids stored, an insert of a block
\* id was rejected
C5_Witness ==
    /\ Len(snapshot.chunk_ids) = 2 /\ Len(snapshot.block_ids) = 2
    /\ scall.op = "add_block_id_if_not_exists" /\ scall.ret = FALSE

\* C5, the guarantee lost: once add_chunk_id, set_chunks, add_block_id or
\* set_block_ids may be called, chunk_ids and block_ids need not stay free of
\* repeats (violated under SpecSnapshot)
C5_UniqueWithPlainAppends ==
    scall.op \in {"add_chunk_id", "set_chunks", "add_block_id", "set_block_ids"}
        => NoDup(snapshot.chunk_ids) /\ NoDup(snapshot.block_ids)

\* C6: Snapshot::get_hash leaves the snapshot as it was; the digest is fixed by
\* id, height, chunk_ids, block_ids and block_hash, whatever calls built them;
\* snapshots that differ in block_hash alone have different digests
C6_SnapshotHash ==
    /\ [](/\ scall.op = "get_hash" =>
                 scall.ret = Sha256(to_le_bytes(snapshot.id) \o to_le_bytes(snapshot.height)
                                    \o FlattenLe(snapshot.chunk_ids \o snapshot.block_ids)
                                    \o B256_as_slice(snapshot.block_hash))
          /\ \A h \in BlockHashes :
                 h # snapshot.block_hash
                     => Snapshot_get_hash(set_block_hash(snapshot, h))
                            # Snapshot_get_hash(snapshot))
    /\ [][scall'.op = "get_hash" => snapshot' = snapshot]_vars

\* C6 witness: get_hash was called on a snapshot that holds chunk ids and block ids
C6_Witness ==
    /\ scall.op = "get_hash"
    /\ Len(snapshot.chunk_ids) >= 2 /\ Len(snapshot.block_ids) >= 1

\* C9: for a chunk made by new(snapshot_id, start, bytes0) and any
\* append_chunk_data calls, size() is 8 + len(bytes0) + the lengths of all bytes
\* appended; it does not depend on snapshot_id or on the block numbers, and
\* calling it leaves the chunk as it was
C9_ChunkSize ==
    /\ [](/\ SnapshotChunk_size(snapshot_chunk) = 8 + SumSeq(fed)
          /\ kcall.op = "size" => kcall.ret = 8 + SumSeq(fed)
          /\ \A id \in ChunkSnapshotIds, s \in ChunkBlockNumbers, e \in ChunkBlockNumbers :
                 SnapshotChunk_size([snapshot_chunk EXCEPT !.snapshot_id = id,
                                                           !.starting_block_number = s,
                                                           !.ending_block_number = e])
                     = SnapshotChunk_size(snapshot_chunk))
    /\ [][kcall'.op = "size" => snapshot_chunk' = snapshot_chunk]_vars

\* C9 witness: size() was called after two appends and counted the bytes of three
\* vectors, all of them non-empty
C9_Witness ==
    /\ kcall.op = "size" /\ Len(fed) = 3 /\ \A i \in 1..3 : fed[i] > 0
    /\ kcall.ret = 8 + fed[1] + fed[2] + fed[3]

\* the versions of the ordering test, in ascending order
VersionChain == <<<<0, 0>>, <<0, 1>>, <<0, 10>>, <<1, 0>>, <<2, 0>>>>

\* a is before b in the lexicographic order: major first, minor as the tiebreak
LexLess(a, b) == a[1] < b[1] \/ (a[1] = b[1] /\ a[2] < b[2])

\* C11: RuntimeVersion comparison is lexicographic and total: a < b iff the major
\* of a is smaller, or the majors are equal and the minor of a is smaller; a == b
\* iff both components are equal; exactly one of a < b, a == b, a > b holds; and
\* (0,0) < (0,1) < (0,10) < (1,0) < (2,0) under every pairwise comparison
C11_VersionOrder ==
    LET lt == RuntimeVersion_lt(version_a, version_b)
        gt == RuntimeVersion_gt(version_a, version_b)
        eq == RuntimeVersion_eq(version_a, version_b)
    IN  /\ lt <=> LexLess(version_a, version_b)
        /\ gt <=> LexLess(version_b, version_a)
        /\ eq <=> (version_a[1] = version_b[1] /\ version_a[2] = version_b[2])
        /\ Cardinality({r \in {"lt", "eq", "gt"} :
                            \/ r = "lt" /\ lt
                            \/ r = "eq" /\ eq
                            \/ r = "gt" /\ gt}) = 1
        /\ vcall.op = "lt" => vcall.ret = LexLess(version_a, version_b)
        /\ vcall.op = "gt" => vcall.ret = LexLess(version_b, version_a)
        /\ vcall.op = "eq" => vcall.ret = (version_a = version_b)
        /\ vcall.op = "cmp" =>
               vcall.ret = (IF LexLess(version_a, version_b) THEN "Less"
                            ELSE IF LexLess(version_b, version_a) THEN "Greater"
                            ELSE "Equal")
        /\ \A i, j \in 1..Len(VersionChain) :
               /\ i < j => /\ RuntimeVersion_lt(VersionChain[i], VersionChain[j])
                           /\ RuntimeVersion_gt(VersionChain[j], VersionChain[i])
                           /\ ~RuntimeVersion_eq(VersionChain[i], VersionChain[j])
               /\ i = j => RuntimeVersion_eq(VersionChain[i], VersionChain[j])

\* C11 witness: (0,10) < (1,0) was evaluated and gave true
C11_Witness ==
    /\ version_a = <<0, 10>> /\ version_b = <<1, 0>>
    /\ vcall.op = "lt" /\ vcall.ret = TRUE

\* C12: after SnapshotSync::new and any set_last_applied_chunk_index,
\* set_total_chunks and set_height calls, last_applied_chunk_index is the
\* argument of the latest set_last_applied_chunk_index call, or 0 if there was
\* none; the call takes every value, above total_chunks or below the current
\* index alike, and changes no other field
C12_LastAppliedIndex ==
    /\ [](snapshot_sync.last_applied_chunk_index
              = IF last_index = None THEN 0 ELSE last_index[1])
    /\ [][ycall'.op = "set_last_applied_chunk_index" =>
              /\ snapshot_sync'.last_applied_chunk_index = ycall'.arg
              /\ snapshot_sync'.height = snapshot_sync.height
              /\ snapshot_sync'.total_chunks = snapshot_sync.total_chunks
              /\ snapshot_sync'.snapshot_hash = snapshot_sync.snapshot_hash
              /\ snapshot_sync'.format = snapshot_sync.format]_vars

\* C12 witness: set_last_applied_chunk_index was called with a value above
\* total_chunks and below the index held before, and the value is stored
C12_Witness ==
    /\ ycall.op = "set_last_applied_chunk_index"
    /\ ycall.arg > snapshot_sync.total_chunks /\ ycall.arg < ycall.before
    /\ snapshot_sync.last_applied_chunk_index = ycall.arg

\* both records have been offered every pair of the collection
AllOffered == offered[1] = collection /\ offered[2] = collection

\* no two different pairs of the collection share a block number or a payload
ConflictFree ==
    \A p, q \in collection : p # q => (p[1] # q[1] /\ p[2] # q[2])

\* C13 (as claimed): two records created empty and offered every pair of one
\* collection, in any two orders, end with equal blocks_and_data_to_set() results
C13_Original ==
    AllOffered => blocks_and_data_to_set(peers[1]) = blocks_and_data_to_set(peers[2])

\* C13 (amended): when no two different pairs of the collection share a block
\* number or a payload, two records created empty and offered every pair of the
\* collection, in any two orders, end with equal blocks_and_data_to_set() results
C13_ConvergeWhenConflictFree == ConflictFree => C13_Original

\* C13 witness: three pairs without a conflict reached the two records in
\* different orders, and both records hold all three
C13_Witness ==
    /\ AllOffered /\ ConflictFree /\ Cardinality(collection) = 3
    /\ peers[1].blocks # peers[2].blocks
    /\ Len(peers[1].blocks) = 3 /\ Len(peers[2].blocks) = 3

\* the snapshot with its ids redistributed: the first k of seq as chunk_ids,
\* the rest as block_ids
Resplit(self, seq, k) ==
    [self EXCEPT !.chunk_ids = SubSeq(seq, 1, k),
                 !.block_ids = SubSeq(seq, k + 1, Len(seq))]

\* seq with the elements at positions i and j exchanged
Exchange(seq, i, j) ==
    [n \in 1..Len(seq) |-> IF n = i THEN seq[j] ELSE IF n = j THEN seq[i] ELSE seq[n]]

\* C14: the digest Snapshot::get_hash returns depends on chunk_ids and
\* block_ids only through their concatenation: its input is id, height, the
\* concatenation's elements in order and block_hash, every snapshot with the
\* same id, height, block_hash and the same concatenation (however it is split
\* between the two fields) gets the same digest, and exchanging two unequal
\* elements of the concatenation changes the digest input
C14_HashOfConcatenation ==
    scall.op = "get_hash" =>
        LET concat == snapshot.chunk_ids \o snapshot.block_ids
            split == Len(snapshot.chunk_ids)
            digest == scall.ret
        IN /\ digest[2] = to_le_bytes(snapshot.id) \o to_le_bytes(snapshot.height)
                              \o FlattenLe(concat)
                              \o B256_as_slice(snapshot.block_hash)
           /\ \A k \in 0..Len(concat) :
                  Snapshot_get_hash(Resplit(snapshot, concat, k)) = digest
           /\ \A i, j \in 1..Len(concat) :
                  (i < j /\ concat[i] # concat[j]) =>
                      Snapshot_get_hash(
                          Resplit(snapshot, Exchange(concat, i, j), split))[2]
                          # digest[2]

\* C14 witness: get_hash on chunk_ids = [1], block_ids = [2] returned the
\* digest of chunk_ids = [1,2], block_ids = [], and not that of [2,1]
C14_Witness ==
    /\ scall.op = "get_hash"
    /\ snapshot.chunk_ids = <<1>> /\ snapshot.block_ids = <<2>>
    /\ scall.ret = Snapshot_get_hash([snapshot EXCEPT !.chunk_ids = <<1, 2>>,
                                                      !.block_ids = <<>>])
    /\ scall.ret # Snapshot_get_hash([snapshot EXCEPT !.chunk_ids = <<2, 1>>,
                                                      !.block_ids = <<>>])

====
